---- MODULE Spec2Model ----
(***************************************************************************)
(* Model of CHECLabPy/core/io.py: the buffered DL1 table writer            *)
(* (DL1Writer), the telemetry reader and time aligner (MonitorWriter) and  *)
(* the table reader (HDFStoreReader / DL1Reader).                          *)
(*                                                                         *)
(* Conventions of the model                                                *)
(*  - A DataFrame of the data table is [cols, itemsize, rows]: rows is a   *)
(*    sequence of functions from the column names to values.               *)
(*  - A DataFrame of the monitor table is a sequence of rows, each with    *)
(*    its index label.                                                     *)
(*  - Floating point values are held in halves (the value 3 stands for     *)
(*    1.5); NaN is the value -1. Integer columns hold plain integers.      *)
(*  - Timestamps are integers; the constant one-hour shift applied to      *)
(*    every telemetry timestamp is already applied in the line's t field.  *)
(*  - Byte sizes are in model units: memory_usage of a frame is            *)
(*    rows * columns * itemsize, and the 0.5E9 byte threshold is           *)
(*    FlushThreshold units.                                                *)
(***************************************************************************)
EXTENDS Integers, Sequences, FiniteSets, TLC

\* ------------------------------------------------------------------ bounds
MaxTime == 2        \* timestamps of telemetry cycles and data events: 0..MaxTime
MaxCycles == 3      \* terminator lines in a telemetry log
MaxEvents == 3      \* calls of append_event in a run
MaxSamples == 1     \* sample lines in a telemetry log
GuardSpan == 30     \* recorded byte counts: MemoryGuard - GuardSpan .. MemoryGuard + GuardSpan
NnlsMaxAbs == 1     \* entries of A and b: -NnlsMaxAbs .. NnlsMaxAbs
NnlsMaxIt == 3      \* the argument maxit: None or 0 .. NnlsMaxIt

\* --------------------------------------------------------------- constants
NaN == -1
NoTime == -2                \* the integer 0 that start_time holds before a cycle
n_modules == 32
n_tmpix == 64
FlushThreshold == 320       \* 0.5E9 bytes
MemoryGuard == 5120         \* 8E9 bytes
supported == {"TM_T_PRI", "TM_T_AUX", "TM_T_PSU", "TM_T_SIPM"}

RECURSIVE Flatten(_)
Flatten(ss) == IF ss = <<>> THEN <<>> ELSE Head(ss) \o Flatten(Tail(ss))

\* ------------------------------------------------------- monitor DataFrame
\* MonitorWriter.__init__: self.empty_df
empty_df ==
    [i \in 1..n_modules |->
        [label |-> i - 1, imon |-> 0, t_cpu |-> 0, module |-> i - 1,
         tm |-> [k \in supported |-> NaN]]]

\* df.loc[0, column]: the row whose index label is 0
Loc0(df) == df[CHOOSE i \in DOMAIN df : df[i].label = 0]

\* df.loc[:, 'imon'] = imon ; df.loc[:, 't_cpu'] = t_cpu
Stamp(df, imon, t_cpu) ==
    [i \in DOMAIN df |-> [df[i] EXCEPT !.imon = imon, !.t_cpu = t_cpu]]

\* df.loc[device_id, key] = value: sets the cell of the row labelled
\* device_id; a label the frame does not have enlarges the frame by a row
\* whose other columns are missing
SetLoc(df, device_id, key, value) ==
    IF \E i \in DOMAIN df : df[i].label = device_id
    THEN [i \in DOMAIN df |->
            IF df[i].label = device_id
            THEN [df[i] EXCEPT !.tm = [@ EXCEPT ![key] = value]]
            ELSE df[i]]
    ELSE Append(df, [label |-> device_id, imon |-> NaN, t_cpu |-> NaN,
                     module |-> NaN,
                     tm |-> [k \in supported |->
                                IF k = key THEN value ELSE NaN]])

\* memory_usage(index=True, deep=True).sum() of a monitor frame: 7 columns
MonMemoryUsage(df) == Len(df) * 7

\* --------------------------------------------------- telemetry log reader
\* A line of the log is [kind, n_fields, t, key, device_id, value], n_fields
\* being len(line.replace('\n', '').split(" ")):
\*   kind "done"   - '<date> <time> Monitoring Event Done'
\*   kind "sample" - '<date> <time> <device> <measurement> <device-id> <value>'
\*   kind "short"  - a line of 1..5 fields without 'Monitoring Event Done';
\*                   the blank line has the one field ''. With two fields
\*                   or more the first two are a date and a time.
DoneLine(t) ==
    [kind |-> "done", n_fields |-> 5, t |-> t, key |-> "", device_id |-> 0, value |-> 0]
SampleLine(t, key, dev, v) ==
    [kind |-> "sample", n_fields |-> 6, t |-> t, key |-> key, device_id |-> dev,
     value |-> v]
ShortLine(t, n_fields) ==
    [kind |-> "short", n_fields |-> n_fields, t |-> t, key |-> "", device_id |-> 0,
     value |-> 0]

\* the value of a sample line whose last field float() rejects
BadValue == -3

\* local variables of the generator _get_next_monitor_event before its
\* first line. alias is the number of elements at the end of self.df_list
\* that are the object df itself (0 unless a flush failed inside the
\* generator); reported is the number of lines printed by `except ValueError`.
GenInit ==
    [pos |-> 1, imon |-> 0, t_cpu |-> 0, start_time |-> NoTime,
     df |-> empty_df, suspended |-> FALSE, exhausted |-> FALSE, alias |-> 0,
     reported |-> 0]

\* the statements after `yield df`: imon += 1; df = self.empty_df.copy()
GenResume(g) ==
    IF g.suspended
    THEN [g EXCEPT !.imon = @ + 1, !.df = empty_df, !.suspended = FALSE]
    ELSE g

\* metadata dictionaries are functions from key to value
AddMetadata(metadata, kwargs) ==
    [k \in DOMAIN metadata \cup DOMAIN kwargs |->
        IF k \in DOMAIN kwargs THEN kwargs[k] ELSE metadata[k]]

\* ------------------------------------------------------------ the program
\* The operators below take and return the record S of the program's
\* objects: S.dl1 (DL1Writer), S.mon (MonitorWriter), S.gen (the generator
\* self.monitor_it), S.store (the HDFStore) and S.raised (the exception
\* that is propagating, "none" if there is none).
Raise(S, exc) == [S EXCEPT !.raised = exc]

\* ------------------------------------------------- MonitorWriter: writing
\* pd.concat(self.df_list, ignore_index=True)
MonConcat(df_list) == Flatten(df_list)

\* the row as stored by store.append('monitor', df, index=False):
\* imon as uint32, module as uint8 (all model values are below 2^31, so the
\* 32 bit cast leaves them as they are)
MonStoredRow(r) ==
    [imon |-> r.imon, t_cpu |-> r.t_cpu, module |-> r.module % 256, tm |-> r.tm]

\* MonitorWriter._append_to_file; astype of a column holding a missing
\* value raises ValueError
MonAppendToFile(S) ==
    IF S.mon.df_list = <<>>
    THEN S
    ELSE LET df == MonConcat(S.mon.df_list)
         IN  IF \E i \in DOMAIN df : df[i].imon = NaN \/ df[i].module = NaN
             THEN Raise(S, "ValueError")
             ELSE [S EXCEPT
                     !.store.keys = @ \cup {"monitor"},
                     !.store.monitor = @ \o [i \in DOMAIN df |-> MonStoredRow(df[i])],
                     !.store.journal = Append(@, [table |-> "monitor", kind |-> "rows"]),
                     !.mon.n_bytes = @ + MonMemoryUsage(df),
                     !.mon.df_list = <<>>,
                     !.mon.df_list_n_bytes = 0]

\* MonitorWriter.append_monitor_event
AppendMonitorEvent(S, df_ev) ==
    LET S1 == [S EXCEPT !.mon.df_list = Append(@, df_ev),
                        !.mon.df_list_n_bytes = @ + MonMemoryUsage(df_ev)]
    IN  IF S1.mon.df_list_n_bytes >= FlushThreshold
        THEN MonAppendToFile(S1)
        ELSE S1

\* a write to df shows in the elements of self.df_list that are df
GenSetDf(S, df) ==
    [S EXCEPT
        !.gen.df = df,
        !.mon.df_list = [i \in DOMAIN @ |->
                            IF i > Len(@) - S.gen.alias THEN df ELSE @[i]]]

\* GenSample with a value that float() rejects recorded as 0
GenSample_ZeroForBad(S, line) ==
    IF line.key \in supported
    THEN GenSetDf(S, SetLoc(S.gen.df, line.device_id, line.key,
                            IF line.value = BadValue THEN 0 ELSE line.value))
    ELSE S

\* one sample line: recorded if device_measurement is supported; the
\* ValueError of float(data[5]) is caught by `except ValueError`, which
\* prints the line
GenSample(S, line) ==
    IF line.key \in supported
    THEN IF line.value = BadValue
         THEN [S EXCEPT !.gen.reported = @ + 1]
         ELSE GenSetDf(S, SetLoc(S.gen.df, line.device_id, line.key, line.value))
    ELSE S

\* a terminator line up to self.append_monitor_event(df)
GenDone(S, line) ==
    AppendMonitorEvent(
        GenSetDf([S EXCEPT !.gen.start_time = IF @ = NoTime THEN line.t ELSE @],
                 Stamp(S.gen.df, S.gen.imon, line.t)),
        Stamp(S.gen.df, S.gen.imon, line.t))

\* `for line in file` up to the next `yield df` or the end of the file,
\* where the metadata is added. A ValueError that append_monitor_event
\* raises is caught by `except ValueError` of the loop body: the line is
\* reported, nothing is yielded, imon and df stay, and df is left in
\* self.df_list.
RECURSIVE GenLines(_, _)
GenYield(S1, lg) ==
    IF S1.raised = "ValueError"
    THEN GenLines([S1 EXCEPT !.raised = "none", !.gen.alias = @ + 1,
                             !.gen.reported = @ + 1], lg)
    ELSE [S1 EXCEPT !.gen.suspended = TRUE]

\* the body of the loop after the timestamp: the terminator branch, then
\* `if len(data) < 6: continue`, then the sample
GenLine(S, line, lg) ==
    IF line.kind = "done"
    THEN GenYield(GenDone(S, line), lg)
    ELSE IF line.n_fields < 6
    THEN GenLines(S, lg)
    ELSE GenLines(GenSample(S, line), lg)

\* data[1] of a line of one field raises IndexError, which `except
\* ValueError` does not catch: it leaves the generator, which is finished
\* from then on
GenLines(S, lg) ==
    IF S.gen.pos > Len(lg)
    THEN [S EXCEPT
            !.gen.exhausted = TRUE,
            !.mon.metadata = AddMetadata(@,
                [n_events |-> S.gen.imon, start_time |-> S.gen.start_time,
                 end_time |-> S.gen.t_cpu, n_modules |-> n_modules,
                 n_tmpix |-> n_tmpix])]
    ELSE IF lg[S.gen.pos].n_fields < 2
    THEN Raise([S EXCEPT !.gen.pos = @ + 1, !.gen.exhausted = TRUE], "IndexError")
    ELSE GenLine([S EXCEPT !.gen.pos = @ + 1, !.gen.t_cpu = lg[S.gen.pos].t],
                 lg[S.gen.pos], lg)

\* next(self.monitor_it): runs the generator to its next yield. The result
\* is [S, stop]: stop is TRUE when the generator raises StopIteration.
GenNext_Result(S1) == [S |-> S1, stop |-> S1.gen.exhausted]

GenNext(S, lg) ==
    IF S.gen.exhausted
    THEN [S |-> S, stop |-> TRUE]
    ELSE GenNext_Result(GenLines([S EXCEPT !.gen = GenResume(@)], lg))

\* SyntheticNext without `self.next_monitor_ev.loc[:, 'imon'] = imon + 1`:
\* the look-ahead keeps the cycle index 0 of empty_df
SyntheticNext_NoIndex(monitor_ev, t_delta_max) ==
    Stamp(empty_df, 0, Loc0(monitor_ev).t_cpu + t_delta_max)

\* SyntheticNext with `self.next_monitor_ev.loc[:, 't_cpu'] = self.t_delta_max`
SyntheticNext_StepOnly(monitor_ev, t_delta_max) ==
    Stamp(empty_df, Loc0(monitor_ev).imon + 1, t_delta_max)

\* the extrapolated look-ahead of match_to_data_events (except StopIteration)
SyntheticNext(monitor_ev, t_delta_max) ==
    Stamp(empty_df, Loc0(monitor_ev).imon + 1, Loc0(monitor_ev).t_cpu + t_delta_max)

\* match_to_data_events: `while (t_cpu_data > t_cpu_next_monitor) and not self.eof`
RECURSIVE MatchLoop(_, _, _)
\* the try / except StopIteration of the loop body, r being the outcome of
\* next(self.monitor_it)
MatchLoop_Next(r, t_cpu_data, lg) ==
    IF r.S.raised # "none"
    THEN r.S
    ELSE IF r.stop
    THEN MatchLoop([r.S EXCEPT
                      !.mon.eof = TRUE,
                      !.mon.next_monitor_ev =
                          SyntheticNext(r.S.mon.monitor_ev, r.S.mon.t_delta_max)],
                   t_cpu_data, lg)
    ELSE MatchLoop([r.S EXCEPT !.mon.next_monitor_ev = r.S.gen.df],
                   t_cpu_data, lg)

MatchLoop(S, t_cpu_data, lg) ==
    IF S.mon.eof
       \/ ~(t_cpu_data > Loc0(S.mon.next_monitor_ev).t_cpu)
    THEN S
    ELSE MatchLoop_Next(
             GenNext([S EXCEPT !.mon.monitor_ev = S.mon.next_monitor_ev], lg),
             t_cpu_data, lg)

\* MatchTail without the aeof guard and with a further look-ahead
\* synthesized after each advance
MatchTail_Extrapolating(S, t_cpu_data) ==
    IF S.raised = "none" /\ S.mon.eof
       /\ t_cpu_data > Loc0(S.mon.next_monitor_ev).t_cpu
    THEN LET S1 == AppendMonitorEvent(
                      [S EXCEPT !.mon.monitor_ev = S.mon.next_monitor_ev,
                                !.mon.n_tail = @ + 1],
                      S.mon.next_monitor_ev)
         IN  IF S1.raised = "none"
             THEN [S1 EXCEPT
                     !.mon.aeof = TRUE,
                     !.mon.next_monitor_ev =
                         SyntheticNext(S1.mon.monitor_ev, S1.mon.t_delta_max)]
             ELSE S1
    ELSE S

\* MatchTail without `and not self.aeof`
MatchTail_NoGuard(S, t_cpu_data) ==
    IF S.raised = "none" /\ S.mon.eof
       /\ t_cpu_data > Loc0(S.mon.next_monitor_ev).t_cpu
    THEN LET S1 == AppendMonitorEvent(
                      [S EXCEPT !.mon.monitor_ev = S.mon.next_monitor_ev,
                                !.mon.n_tail = @ + 1],
                      S.mon.next_monitor_ev)
         IN  IF S1.raised = "none" THEN [S1 EXCEPT !.mon.aeof = TRUE] ELSE S1
    ELSE S

\* MatchTail without `self.append_monitor_event(self.monitor_ev)`
MatchTail_NoAppend(S, t_cpu_data) ==
    IF S.raised = "none" /\ S.mon.eof /\ ~S.mon.aeof
       /\ t_cpu_data > Loc0(S.mon.next_monitor_ev).t_cpu
    THEN [S EXCEPT !.mon.monitor_ev = S.mon.next_monitor_ev, !.mon.aeof = TRUE]
    ELSE S

\* match_to_data_events, `if self.eof and (t_cpu_data > t_cpu_next_monitor)
\* and not self.aeof`
MatchTail(S, t_cpu_data) ==
    IF S.raised = "none" /\ S.mon.eof /\ ~S.mon.aeof
       /\ t_cpu_data > Loc0(S.mon.next_monitor_ev).t_cpu
    THEN LET S1 == AppendMonitorEvent(
                      [S EXCEPT !.mon.monitor_ev = S.mon.next_monitor_ev,
                                !.mon.n_tail = @ + 1],
                      S.mon.next_monitor_ev)
         IN  IF S1.raised = "none" THEN [S1 EXCEPT !.mon.aeof = TRUE] ELSE S1
    ELSE S

\* data_ev['monitor_index'] = imon * self.n_modules + pixel // self.n_tmpix
StampMonitorIndex(data_ev, imon) ==
    [data_ev EXCEPT
        !.cols = @ \cup {"monitor_index"},
        !.rows = [i \in DOMAIN data_ev.rows |->
                    [c \in data_ev.cols \cup {"monitor_index"} |->
                        IF c = "monitor_index"
                        THEN imon * n_modules + (data_ev.rows[i]["pixel"] \div n_tmpix)
                        ELSE data_ev.rows[i][c]]]]

\* MonitorWriter.match_to_data_events; the result is [S, data_ev], data_ev
\* being the frame of the caller after the call
MatchToDataEvents_Stamp(S2, data_ev) ==
    [S |-> S2,
     data_ev |-> IF S2.raised = "none"
                 THEN StampMonitorIndex(data_ev, Loc0(S2.mon.monitor_ev).imon)
                 ELSE data_ev]

MatchToDataEvents(S, data_ev, lg) ==
    LET t_cpu_data == data_ev.rows[1]["t_cpu"]
        t_lead == Loc0(S.mon.next_monitor_ev).t_cpu - t_cpu_data
        S1 == [S EXCEPT !.mon.t_delta_max = IF @ < t_lead THEN t_lead ELSE @]
    IN  MatchToDataEvents_Stamp(
            MatchTail(MatchLoop(S1, t_cpu_data, lg), t_cpu_data), data_ev)

\* MonitorWriter.finish: `for _ in self.monitor_it: pass`
RECURSIVE MonFinish_Drain(_, _)
MonFinish_DrainNext(r, lg) ==
    IF r.stop \/ r.S.raised # "none" THEN r.S ELSE MonFinish_Drain(r.S, lg)

MonFinish_Drain(S, lg) == MonFinish_DrainNext(GenNext(S, lg), lg)

\* MonitorWriter.finish: self._append_to_file()
MonFinish_Flush(S1) == IF S1.raised # "none" THEN S1 ELSE MonAppendToFile(S1)

\* MonitorWriter.finish: self.add_metadata(n_bytes=...); self._save_metadata()
MonFinish_Metadata(S2) ==
    IF S2.raised # "none" THEN S2
    ELSE LET md == AddMetadata(S2.mon.metadata, [n_bytes |-> S2.mon.n_bytes])
         IN  IF "monitor" \in S2.store.keys
             THEN [S2 EXCEPT !.mon.metadata = md,
                             !.store.attrs = AddMetadata(@, [monitor |-> md]),
                             !.store.journal =
                                 Append(@, [table |-> "monitor", kind |-> "metadata"])]
             ELSE Raise([S2 EXCEPT !.mon.metadata = md], "AttributeError")

\* MonFinish without `for _ in self.monitor_it: pass`
MonFinish_NoDrain(S, lg) == MonFinish_Metadata(MonFinish_Flush(S))

MonFinish(S, lg) == MonFinish_Metadata(MonFinish_Flush(MonFinish_Drain(S, lg)))

\* ----------------------------------------------------- DL1Writer: writing
\* df.memory_usage(index=True, deep=True).sum() of a data frame
MemoryUsage(df) == Len(df.rows) * Cardinality(df.cols) * df.itemsize

\* default_c of DL1Writer._append_to_file: the list as Python reads it
\* ('tr' and 'baseline_start_mean' are adjacent literals without a comma)
default_c ==
    <<"t_event", "t_pulse", "amp_pulse", "charge", "fwhm",
      "trbaseline_start_mean", "baseline_start_rms", "baseline_end_mean",
      "baseline_end_rms", "baseline_subtracted", "waveform_mean",
      "waveform_rms", "saturation_coeff">>

SeqRange(s) == {s[i] : i \in DOMAIN s}

\* pd.concat(self.df_list, ignore_index=True): the union of the columns, a
\* column a frame does not have is missing (NaN) in its rows
Concat(df_list) ==
    LET cols == UNION {df_list[i].cols : i \in DOMAIN df_list}
        widen(df) == [j \in DOMAIN df.rows |->
                        [c \in cols |-> IF c \in df.cols THEN df.rows[j][c] ELSE NaN]]
    IN  [cols |-> cols, itemsize |-> df_list[1].itemsize,
         rows |-> Flatten([i \in DOMAIN df_list |-> widen(df_list[i])])]

\* `for column in default_c: if column not in df: df[column] = 0.`
BackFill(df) ==
    LET cols == df.cols \cup SeqRange(default_c)
    IN  [df EXCEPT
           !.cols = cols,
           !.rows = [j \in DOMAIN df.rows |->
                       [c \in cols |-> IF c \in df.cols THEN df.rows[j][c] ELSE 0]]]

\* astype(np.uint16) of an integer column
AsUInt16(v) == v % 65536
\* astype(np.uint32), astype(np.uint64) of an integer column: every value
\* of the model is in 0 .. 2^31 - 1, where the cast changes nothing
AsUInt32(v) == IF v >= 0 THEN v ELSE v + 2147483647 + 2147483647 + 2
AsUInt64(v) == IF v >= 0 THEN v ELSE v + 2147483647 + 2147483647 + 2
\* astype(np.uint16) of a float column: the fraction is dropped; the value
\* stays written in halves
FloatAsUInt16(h) == 2 * ((h \div 2) % 65536)

\* CastRow with first_cell_id cast to uint8
CastRow_FirstCellUInt8(r) ==
    [c \in DOMAIN r |->
        CASE c = "iev" -> AsUInt32(r[c])
          [] c = "pixel" -> AsUInt32(r[c])
          [] c = "first_cell_id" -> r[c] % 256
          [] c = "t_tack" -> AsUInt64(r[c])
          [] c = "t_event" -> FloatAsUInt16(r[c])
          [] OTHER -> r[c]]

\* the astype lines of DL1Writer._append_to_file
CastRow(r) ==
    [c \in DOMAIN r |->
        CASE c = "iev" -> AsUInt32(r[c])
          [] c = "pixel" -> AsUInt32(r[c])
          [] c = "first_cell_id" -> AsUInt16(r[c])
          [] c = "t_tack" -> AsUInt64(r[c])
          [] c = "t_event" -> FloatAsUInt16(r[c])
          [] OTHER -> r[c]]

\* RowBefore for df.sort_values(["pixel", "iev"])
RowBefore_PixelFirst(a, b) ==
    \/ a["pixel"] < b["pixel"]
    \/ a["pixel"] = b["pixel"] /\ a["iev"] < b["iev"]

\* the order of df.sort_values(["iev", "pixel"])
RowBefore(a, b) ==
    \/ a["iev"] < b["iev"]
    \/ a["iev"] = b["iev"] /\ a["pixel"] < b["pixel"]

RECURSIVE InsertRow(_, _)
InsertRow(sorted, r) ==
    IF sorted = <<>> THEN <<r>>
    ELSE IF RowBefore(r, Head(sorted)) THEN <<r>> \o sorted
    ELSE <<Head(sorted)>> \o InsertRow(Tail(sorted), r)

RECURSIVE SortValues(_)
SortValues(rows) ==
    IF rows = <<>> THEN <<>>
    ELSE InsertRow(SortValues(SubSeq(rows, 1, Len(rows) - 1)), rows[Len(rows)])

\* the frame that DL1Writer._append_to_file hands to store.append
FlushFrame(df_list) ==
    LET df == BackFill(Concat(df_list))
    IN  [df EXCEPT !.rows = SortValues([j \in DOMAIN df.rows |-> CastRow(df.rows[j])])]

\* AppendToFile without `self.df_list = []`
AppendToFile_NoReset(S) ==
    IF S.dl1.df_list = <<>>
    THEN S
    ELSE LET df == FlushFrame(S.dl1.df_list)
         IN  [S EXCEPT
                !.store.keys = @ \cup {"data"},
                !.store.data = @ \o df.rows,
                !.store.journal = Append(@, [table |-> "data", kind |-> "rows"]),
                !.dl1.n_bytes = @ + MemoryUsage(df),
                !.dl1.df_list_n_bytes = 0]

\* DL1Writer._append_to_file; astype of a column holding a missing value
\* raises ValueError, and so does store.append of a frame whose columns are
\* not those of the table
\* AppendToFile_Store without `self.n_bytes += df.memory_usage(...).sum()`
AppendToFile_Store_NoCount(S, df0, df) ==
    IF \/ \E j \in DOMAIN df0.rows :
             \E c \in {"iev", "pixel", "first_cell_id", "t_tack", "t_event"} :
                 df0.rows[j][c] = NaN
       \/ /\ "data" \in S.store.keys
          /\ DOMAIN S.store.data[1] # df.cols
    THEN Raise(S, "ValueError")
    ELSE [S EXCEPT
            !.store.keys = @ \cup {"data"},
            !.store.data = @ \o df.rows,
            !.store.journal = Append(@, [table |-> "data", kind |-> "rows"]),
            !.dl1.df_list = <<>>,
            !.dl1.df_list_n_bytes = 0]

\* the casts, store.append and the bookkeeping of DL1Writer._append_to_file
AppendToFile_Store(S, df0, df) ==
    IF \/ \E j \in DOMAIN df0.rows :
             \E c \in {"iev", "pixel", "first_cell_id", "t_tack", "t_event"} :
                 df0.rows[j][c] = NaN
       \/ /\ "data" \in S.store.keys
          /\ DOMAIN S.store.data[1] # df.cols
    THEN Raise(S, "ValueError")
    ELSE [S EXCEPT
            !.store.keys = @ \cup {"data"},
            !.store.data = @ \o df.rows,
            !.store.journal = Append(@, [table |-> "data", kind |-> "rows"]),
            !.dl1.n_bytes = @ + MemoryUsage(df),
            !.dl1.df_list = <<>>,
            !.dl1.df_list_n_bytes = 0]

AppendToFile(S) ==
    IF S.dl1.df_list = <<>>
    THEN S
    ELSE AppendToFile_Store(S, BackFill(Concat(S.dl1.df_list)),
                            FlushFrame(S.dl1.df_list))

\* DL1Writer.append_event. The frame in self.df_list and the frame handed to
\* match_to_data_events are the same object: the stamp of the aligner shows
\* in the buffered frame.
AppendEvent_Buffer(S, df_ev) ==
    [S EXCEPT !.dl1.df_list = Append(@, df_ev),
              !.dl1.df_list_n_bytes = @ + MemoryUsage(df_ev)]

\* `if self.monitor: self.monitor.match_to_data_events(df_ev)`
AppendEvent_Match(S1, df_ev, lg) ==
    IF S1.dl1.monitor
    THEN MatchToDataEvents(S1, df_ev, lg)
    ELSE [S |-> S1, data_ev |-> df_ev]

\* the last element of self.df_list is the frame the aligner wrote to
AppendEvent_Alias(m) ==
    [S |-> [m.S EXCEPT !.dl1.df_list[Len(m.S.dl1.df_list)] = m.data_ev],
     df_ev |-> m.data_ev]

\* AppendEvent_Flush with `if self.df_list_n_bytes > 0.5E9`
AppendEvent_FlushGreater(m) ==
    [S |-> IF m.S.raised = "none" /\ m.S.dl1.df_list_n_bytes > FlushThreshold
           THEN AppendToFile(m.S)
           ELSE m.S,
     df_ev |-> m.df_ev]

\* `if self.df_list_n_bytes >= 0.5E9: self._append_to_file()`
AppendEvent_Flush(m) ==
    [S |-> IF m.S.raised = "none" /\ m.S.dl1.df_list_n_bytes >= FlushThreshold
           THEN AppendToFile(m.S)
           ELSE m.S,
     df_ev |-> m.df_ev]

\* the result is [S, df_ev], df_ev being the frame of the caller after the call
AppendEventOp(S, df_ev, lg) ==
    AppendEvent_Flush(
        AppendEvent_Alias(
            AppendEvent_Match(AppendEvent_Buffer(S, df_ev), df_ev, lg)))

\* DL1Writer.finish
\* `if self.monitor: self.monitor.finish()`
Finish_Monitor(S1, lg) ==
    IF S1.raised = "none" /\ S1.dl1.monitor THEN MonFinish(S1, lg) ELSE S1

\* self.add_metadata(n_bytes=...); self._save_metadata(); self.store.close()
Finish_Close(S2) ==
    IF S2.raised # "none" THEN S2
    ELSE LET md == AddMetadata(S2.dl1.metadata, [n_bytes |-> S2.dl1.n_bytes])
         IN  IF "data" \in S2.store.keys
             THEN [S2 EXCEPT !.dl1.metadata = md,
                             !.store.attrs = AddMetadata(@, [data |-> md]),
                             !.store.journal =
                                 Append(@, [table |-> "data", kind |-> "metadata"]),
                             !.store.is_open = FALSE]
             ELSE Raise([S2 EXCEPT !.dl1.metadata = md], "AttributeError")

FinishOp(S, lg) == Finish_Close(Finish_Monitor(AppendToFile(S), lg))

\* ------------------------------------------------------------------ inputs
\* The pixels whose rows the model carries for every event, in the order
\* the upstream reducer hands them over
EventPixels == <<64, 0, 2047, 63>>

\* The upstream reducer of a run: the feature columns it produces for every
\* event and the width of its values
Mandatory == {"iev", "pixel", "first_cell_id", "t_tack", "t_cpu"}
Reducers == {[cols |-> {}, itemsize |-> 8],
             [cols |-> {"charge", "t_event"}, itemsize |-> 4]}

\* the frame of event iev, taken at time t_cpu
MakeEvent(iev, t_cpu, red) ==
    [cols |-> Mandatory \cup red.cols,
     itemsize |-> red.itemsize,
     rows |-> [i \in DOMAIN EventPixels |->
                 [c \in Mandatory \cup red.cols |->
                    CASE c = "iev" -> iev
                      [] c = "pixel" -> EventPixels[i]
                      [] c = "first_cell_id" -> 65535 - EventPixels[i]
                      [] c = "t_tack" -> 1000 * t_cpu + 7
                      [] c = "t_cpu" -> t_cpu
                      [] c = "charge" -> 2 * EventPixels[i] + 1
                      [] c = "t_event" -> 2 * t_cpu + 1
                      [] OTHER -> 0]]]

\* the lines of one cycle: no sample line (0), a sample of module 0 (1) or
\* a sample that carries device id 32 (2), then the terminator
CycleLines(t, choice) ==
    CASE choice = 1 -> <<SampleLine(t, "TM_T_PRI", 0, 5), DoneLine(t)>>
      [] choice = 2 -> <<SampleLine(t, "TM_T_PRI", n_modules, 5), DoneLine(t)>>
      [] OTHER -> <<DoneLine(t)>>

\* telemetry logs: 1..MaxCycles cycles with increasing timestamps and at
\* most MaxSamples sample lines
LogsOver(times) ==
    UNION {
      UNION {
        {Flatten([i \in 1..n |-> CycleLines(ts[i], ss[i])]) :
            ss \in {f \in [1..n -> 0..2] :
                        Cardinality({i \in 1..n : f[i] # 0}) <= MaxSamples}} :
        ts \in {f \in [1..n -> times] : \A i, j \in 1..n : i < j => f[i] < f[j]}} :
      n \in 1..MaxCycles}

Logs == LogsOver(0..MaxTime)
DataTimes == 0..(MaxTime + 1)

\* the timestamps of the cycles of a log, in the order of the log
RECURSIVE CycleTimes(_)
CycleTimes(lg) ==
    IF lg = <<>> THEN <<>>
    ELSE IF Head(lg).kind = "done" THEN <<Head(lg).t>> \o CycleTimes(Tail(lg))
    ELSE CycleTimes(Tail(lg))

\* ------------------------------------------------------------------- state
VARIABLES
    log,        \* the telemetry log file (<<>> when no monitor_path is given)
    reducer,    \* the upstream reducer of the run
    dl1,        \* the DL1Writer
    mon,        \* the MonitorWriter
    gen,        \* the generator self.monitor_it
    store,      \* the HDF5 store
    raised,     \* the exception that ended the run, "none" if none
    loaded,     \* what the reader returned last
    hist,       \* one record per call of append_event (history)
    nnls        \* the local variables of a call of nnls(A, b, maxit, tolerance)

vars == <<log, reducer, dl1, mon, gen, store, raised, loaded, hist, nnls>>

\* nnls has not been called
NnlsIdle == [pc |-> "idle"]

Prog == [dl1 |-> dl1, mon |-> mon, gen |-> gen, store |-> store, raised |-> raised]

SetProg(S) ==
    /\ dl1' = S.dl1
    /\ mon' = S.mon
    /\ gen' = S.gen
    /\ store' = S.store
    /\ raised' = S.raised

\* DL1Writer.__init__ and MonitorWriter.__init__ before next(self.monitor_it)
\* mon.n_tail counts the calls of append_monitor_event that
\* match_to_data_events made for the synthetic terminal batch
NewProg(monitor) ==
    [dl1 |-> [metadata |-> <<>>, n_bytes |-> 0, df_list |-> <<>>,
              df_list_n_bytes |-> 0, monitor |-> monitor],
     mon |-> [metadata |-> <<>>, n_bytes |-> 0, df_list |-> <<>>, df_list_n_bytes |-> 0,
              eof |-> FALSE, aeof |-> FALSE, t_delta_max |-> 0, n_tail |-> 0,
              monitor_ev |-> empty_df, next_monitor_ev |-> empty_df],
     gen |-> GenInit,
     store |-> [keys |-> {}, data |-> <<>>, monitor |-> <<>>, attrs |-> <<>>,
                journal |-> <<>>, is_open |-> TRUE],
     raised |-> "none"]

\* MonitorWriter.__init__: self.monitor_ev = next(self.monitor_it), IOError
\* on StopIteration; self.next_monitor_ev = self.monitor_ev.copy()
NewMonitor_First(r) ==
    IF r.S.raised # "none"
    THEN r.S
    ELSE IF r.stop
    THEN Raise(r.S, "IOError")
    ELSE [r.S EXCEPT !.mon.monitor_ev = r.S.gen.df,
                     !.mon.next_monitor_ev = r.S.gen.df]

NewMonitor(lg) == NewMonitor_First(GenNext(NewProg(TRUE), lg))

\* the reader has not been used
NoResult ==
    [status |-> "none", key |-> "none", force |-> FALSE, column |-> "none",
     index |-> <<>>, rows |-> <<>>]

InitProg(S) ==
    /\ dl1 = S.dl1
    /\ mon = S.mon
    /\ gen = S.gen
    /\ store = S.store
    /\ raised = S.raised

InitOver(logs, reducers) ==
    /\ reducer \in reducers
    /\ log \in logs
    /\ InitProg(IF log = <<>> THEN NewProg(FALSE) ELSE NewMonitor(log))
    /\ loaded = NoResult
    /\ hist = <<>>
    /\ nnls = NnlsIdle

Init == InitOver(Logs \cup {<<>>}, Reducers)

\* ----------------------------------------------------------------- actions
\* the monitor_index column of a frame, <<>> if it has none
MonitorIndexOf(df) ==
    IF "monitor_index" \in df.cols
    THEN [i \in DOMAIN df.rows |-> df.rows[i]["monitor_index"]]
    ELSE <<>>

\* the record of a call of append_event: B is the writer as the call
\* buffered and counted the batch, R the outcome of the call
AppendEvent_Record(t_cpu, B, R) ==
    [t_cpu |-> t_cpu,
     added_cols |-> B.dl1.df_list[Len(B.dl1.df_list)].cols,
     counted |-> B.dl1.df_list_n_bytes - dl1.df_list_n_bytes,
     returned |-> R.S.raised = "none",
     written |-> Len(R.S.store.data) - Len(store.data),
     buffered |-> Len(R.S.dl1.df_list),
     estimate |-> R.S.dl1.df_list_n_bytes,
     monitor_index |-> MonitorIndexOf(R.df_ev),
     imon |-> IF dl1.monitor /\ R.S.raised = "none"
              THEN Loc0(R.S.mon.monitor_ev).imon ELSE NaN,
     eof |-> R.S.mon.eof,
     aeof |-> R.S.mon.aeof,
     t_cur |-> Loc0(R.S.mon.monitor_ev).t_cpu,
     t_next |-> Loc0(R.S.mon.next_monitor_ev).t_cpu,
     imon_next |-> Loc0(R.S.mon.next_monitor_ev).imon,
     t_delta_max |-> R.S.mon.t_delta_max]

AppendEvent_Done(t_cpu, B, R) ==
    /\ SetProg(R.S)
    /\ hist' = Append(hist, AppendEvent_Record(t_cpu, B, R))

\* writer.append_event(df_ev) for the next event of the run
AppendEventAt(t_cpu) ==
    /\ store.is_open
    /\ raised = "none"
    /\ Len(hist) < MaxEvents
    /\ AppendEvent_Done(t_cpu,
           AppendEvent_Buffer(Prog, MakeEvent(Len(hist), t_cpu, reducer)),
           AppendEventOp(Prog, MakeEvent(Len(hist), t_cpu, reducer), log))
    /\ UNCHANGED <<log, reducer, loaded, nnls>>

AppendEvent == \E t_cpu \in DataTimes : AppendEventAt(t_cpu)

\* writer.finish()
Finish ==
    /\ store.is_open
    /\ raised = "none"
    /\ SetProg(FinishOp(Prog, log))
    /\ UNCHANGED <<log, reducer, loaded, hist, nnls>>

\* HDFStoreReader.n_bytes of the data table of a finished file
ReaderNBytes == store.attrs["data"]["n_bytes"]

\* LoadEntireTable with `if (self.n_bytes >= 8E9) and not force`
LoadEntireTable_AtLeast ==
    /\ ~store.is_open
    /\ raised = "none"
    /\ loaded.status = "none"
    /\ \E force \in BOOLEAN :
          loaded' = IF ReaderNBytes >= MemoryGuard /\ ~force
                    THEN [status |-> "MemoryError", key |-> "data",
                          force |-> force, column |-> "none",
                          index |-> <<>>, rows |-> <<>>]
                    ELSE [status |-> "ok", key |-> "data",
                          force |-> force, column |-> "none",
                          index |-> <<>>, rows |-> store.data]
    /\ UNCHANGED <<log, reducer, dl1, mon, gen, store, raised, hist, nnls>>

\* DL1Reader(path).load_entire_table(force)
LoadEntireTable ==
    /\ ~store.is_open
    /\ raised = "none"
    /\ loaded.status = "none"
    /\ \E force \in BOOLEAN :
          loaded' = IF ReaderNBytes > MemoryGuard /\ ~force
                    THEN [status |-> "MemoryError", key |-> "data",
                          force |-> force, column |-> "none",
                          index |-> <<>>, rows |-> <<>>]
                    ELSE [status |-> "ok", key |-> "data",
                          force |-> force, column |-> "none",
                          index |-> <<>>, rows |-> store.data]
    /\ UNCHANGED <<log, reducer, dl1, mon, gen, store, raised, hist, nnls>>

\* writer.add_metadata(n_pixels=...) by the caller of the writer, with the
\* number of rows of an event
AddMetadataCall ==
    /\ store.is_open
    /\ raised = "none"
    /\ "n_pixels" \notin DOMAIN dl1.metadata
    /\ dl1' = [dl1 EXCEPT
                  !.metadata = AddMetadata(@, [n_pixels |-> Len(EventPixels)])]
    /\ UNCHANGED <<log, reducer, mon, gen, store, raised, loaded, hist, nnls>>

\* self.store.select(self.key, chunksize=chunksize): the table in pieces of
\* chunksize rows, the last one with the rows that are left
RECURSIVE Chunks(_, _)
Chunks(rows, chunksize) ==
    IF rows = <<>> THEN <<>>
    ELSE IF Len(rows) <= chunksize THEN <<rows>>
    ELSE <<SubSeq(rows, 1, chunksize)>>
         \o Chunks(SubSeq(rows, chunksize + 1, Len(rows)), chunksize)

\* the table of a key of the store
TableOf(key) == IF key = "data" THEN store.data ELSE store.monitor

\* ChunkKey with MonitorReader.iterate_over_events reading n_tmpix
ChunkKey_TmPix(key) == IF key = "data" THEN "n_pixels" ELSE "n_tmpix"

\* the metadata entry that iterate_over_events takes the chunk size from:
\* HDFStoreReader reads n_pixels, MonitorReader n_modules
ChunkKey(key) == IF key = "data" THEN "n_pixels" ELSE "n_modules"

\* iterate_over_events of DL1Reader (key "data") or of its MonitorReader
\* (key "monitor", which a DL1Reader has if the store has the table), run to
\* its end
IterateOverEventsOf(key) ==
    /\ ~store.is_open
    /\ raised = "none"
    /\ loaded.status = "none"
    /\ key \in store.keys
    /\ loaded' = IF ChunkKey(key) \in DOMAIN store.attrs[key]
                 THEN [status |-> "events", key |-> key, force |-> FALSE, column |-> "none",
                       index |-> <<>>, rows |-> Chunks(TableOf(key), store.attrs[key][ChunkKey(key)])]
                 ELSE [status |-> "KeyError", key |-> key, force |-> FALSE, column |-> "none",
                       index |-> <<>>, rows |-> <<>>]
    /\ UNCHANGED <<log, reducer, dl1, mon, gen, store, raised, hist, nnls>>

IterateOverEvents == \E key \in {"data", "monitor"} : IterateOverEventsOf(key)

\* the scenario of three cycles at 0, 10 and 20 with data events at 5, 15,
\* 25 and 35
Log_0_10_20 == <<DoneLine(0), DoneLine(10), DoneLine(20)>>
DataTimes_5_35 == {5, 15, 25, 35}

Init_0_10_20 ==
    InitOver({Log_0_10_20}, {[cols |-> {"charge", "t_event"}, itemsize |-> 4]})

Next_0_10_20 ==
    \/ \E t_cpu \in DataTimes_5_35 : AppendEventAt(t_cpu)
    \/ Finish
    \/ LoadEntireTable

Spec_0_10_20 == Init_0_10_20 /\ [][Next_0_10_20]_vars

Next == AppendEvent \/ Finish \/ LoadEntireTable

\* the writer with a caller that records n_pixels, and the readers of the
\* finished file
\* the column of the monitor table as store.select_column returns it
MonitorColumn(column) ==
    [i \in DOMAIN store.monitor |->
        CASE column = "imon" -> store.monitor[i].imon
          [] column = "t_cpu" -> store.monitor[i].t_cpu
          [] column = "module" -> store.monitor[i].module
          [] OTHER -> store.monitor[i].tm[column]]

\* series[monitor_index]: the rows of the series at the positions given
TakeRows(series, monitor_index) ==
    [i \in DOMAIN monitor_index |-> series[monitor_index[i] + 1]]

\* the monitor indices and column names get_monitor_column is called with
MonitorIndexInputs == {<<0>>, <<0, 0>>, <<1, 0>>}
MonitorColumns == {"imon", "TM_T_PRI"}

\* GetMonitorColumnOf returning an empty result on a file without a
\* monitor table
GetMonitorColumnOf_EmptyWithoutMonitor(monitor_index, column) ==
    IF "monitor" \notin store.keys
    THEN [status |-> "column", key |-> "monitor", force |-> FALSE,
          column |-> column, index |-> monitor_index, rows |-> <<>>]
    ELSE [status |-> IF Len(TakeRows(MonitorColumn(column), monitor_index)) = 1
                     THEN "KeyError" ELSE "ValueError",
          key |-> "monitor", force |-> FALSE,
          column |-> column, index |-> monitor_index, rows |-> <<>>]

\* DL1Reader.get_monitor_column(monitor_index, column). Without a monitor
\* table the reader has no attribute monitor and the AttributeError of the
\* first statement is raised again. With one, the first statement binds
\* column to the selected rows (a Series), and the return statement passes
\* that Series to select_column as the column name: pandas compares it with
\* the names of the table's columns and raises ValueError (the truth value
\* of a Series of several rows is ambiguous) or, for a Series of one row,
\* finds no such column and raises KeyError.
GetMonitorColumnOf(monitor_index, column) ==
    IF "monitor" \notin store.keys
    THEN [status |-> "AttributeError", key |-> "monitor", force |-> FALSE,
          column |-> column, index |-> monitor_index, rows |-> <<>>]
    ELSE [status |-> IF Len(TakeRows(MonitorColumn(column), monitor_index)) = 1
                     THEN "KeyError" ELSE "ValueError",
          key |-> "monitor", force |-> FALSE,
          column |-> column, index |-> monitor_index, rows |-> <<>>]

GetMonitorColumn ==
    /\ ~store.is_open /\ raised = "none" /\ loaded.status = "none"
    /\ \E monitor_index \in MonitorIndexInputs, column \in MonitorColumns :
          loaded' = GetMonitorColumnOf(monitor_index, column)
    /\ UNCHANGED <<log, reducer, dl1, mon, gen, store, raised, hist, nnls>>

Log_Reader == <<SampleLine(0, "TM_T_PRI", 0, 5), DoneLine(0), DoneLine(1)>>

Init_Reader == InitOver({<<>>, Log_Reader}, Reducers)

Next_Reader ==
    \/ AddMetadataCall
    \/ AppendEvent
    \/ Finish
    \/ LoadEntireTable
    \/ IterateOverEvents
    \/ GetMonitorColumn

Spec_Reader == Init_Reader /\ [][Next_Reader]_vars

\* telemetry logs with one line that is not a well-formed sample or
\* terminator: a sample whose value does not parse, or a line of 1, 2 or 5
\* fields; before it nothing, a cycle or a sample of the cycle in progress,
\* after it nothing or a cycle
OddLines(t) ==
    {SampleLine(t, "TM_T_PRI", 0, BadValue)} \cup {ShortLine(t, n) : n \in {1, 2, 5}}

Logs_Odd ==
    {pre \o <<odd>> \o post :
        pre \in {<<>>, CycleLines(0, 0), CycleLines(0, 1),
                 <<SampleLine(0, "TM_T_PRI", 0, 5)>>},
        odd \in OddLines(1),
        post \in {<<>>, CycleLines(1, 0), CycleLines(2, 1)}}

Init_Log == InitOver(Logs_Odd, {[cols |-> {}, itemsize |-> 8]})

Next_Log == AppendEvent \/ Finish

Spec_Log == Init_Log /\ [][Next_Log]_vars

\* a finished file of one event without a telemetry log, standing for a
\* file whose data table has the recorded byte count n_bytes (the rows of a
\* table of that size are not carried)
FileOfSize_Recorded(S, n_bytes) ==
    [S EXCEPT !.store.attrs = [data |-> AddMetadata(@["data"], [n_bytes |-> n_bytes])]]

FileOfSize(red, n_bytes) ==
    FileOfSize_Recorded(
        FinishOp(AppendEventOp(NewProg(FALSE), MakeEvent(0, 0, red), <<>>).S, <<>>),
        n_bytes)

\* the reader on files whose recorded byte count is about the guard of
\* load_entire_table
Init_Guard ==
    /\ reducer = [cols |-> {}, itemsize |-> 8]
    /\ log = <<>>
    /\ \E n_bytes \in (MemoryGuard - GuardSpan)..(MemoryGuard + GuardSpan) :
          InitProg(FileOfSize(reducer, n_bytes))
    /\ loaded = NoResult
    /\ hist = <<>>
    /\ nnls = NnlsIdle

Next_Guard == LoadEntireTable

Spec_Guard == Init_Guard /\ [][Next_Guard]_vars

Spec == Init /\ [][Next]_vars

\* ------------------------------------------------------------------- nnls
\* nnls(A, b, maxit, tolerance) of nnls_pulse_extraction.py. The floats of
\* the code are exact rationals <<numerator, denominator>> here, the
\* denominator positive and the fraction in lowest terms; <<0, 0>> is nan
\* and <<1, 0>>, <<-1, 0>> are inf and -inf. Columns are numbered from 1.
NnlsRows == 2       \* rows of A, len(b)
NnlsCols == 2       \* columns of A
None == -1          \* the argument maxit=None

Abs(n) == IF n < 0 THEN -n ELSE n

Sign(n) == IF n < 0 THEN -1 ELSE IF n = 0 THEN 0 ELSE 1

RECURSIVE Gcd(_, _)
Gcd(a, b) == IF b = 0 THEN a ELSE Gcd(b, a % b)

Rat_Reduced(n, d, g) == <<(Sign(d) * n) \div g, Abs(d) \div g>>

Rat(n, d) == IF d = 0 THEN <<Sign(n), 0>> ELSE Rat_Reduced(n, d, Gcd(Abs(n), Abs(d)))

FromInt(k) == <<k, 1>>
RatNaN == <<0, 0>>
Finite(q) == q[2] # 0

\* arithmetic of floats: an operand that is not finite gives nan
RatAdd(p, q) ==
    IF Finite(p) /\ Finite(q) THEN Rat(p[1] * q[2] + q[1] * p[2], p[2] * q[2]) ELSE RatNaN

RatSub(p, q) ==
    IF Finite(p) /\ Finite(q) THEN Rat(p[1] * q[2] - q[1] * p[2], p[2] * q[2]) ELSE RatNaN

RatMul(p, q) ==
    IF Finite(p) /\ Finite(q) THEN Rat(p[1] * q[1], p[2] * q[2]) ELSE RatNaN

\* p / q: 0 / 0 is nan, x / 0 is inf or -inf
RatDiv(p, q) ==
    IF Finite(p) /\ Finite(q) THEN Rat(p[1] * q[2], p[2] * q[1]) ELSE RatNaN

\* comparisons of floats: false when an operand is nan
RatLess(p, q) == Finite(p) /\ Finite(q) /\ p[1] * q[2] < q[1] * p[2]
RatLeq(p, q) == Finite(p) /\ Finite(q) /\ p[1] * q[2] <= q[1] * p[2]

RECURSIVE RatSum(_)
RatSum(v) == IF v = <<>> THEN FromInt(0) ELSE RatAdd(Head(v), RatSum(Tail(v)))

RECURSIVE IntSum(_)
IntSum(v) == IF v = <<>> THEN 0 ELSE Head(v) + IntSum(Tail(v))

\* A[:, j] and np.dot of two integer vectors
Col(A, j) == [i \in 1..NnlsRows |-> A[i][j]]
Dot(u, v) == IntSum([i \in DOMAIN u |-> u[i] * v[i]])

\* v[idx], idx a list of indices
Take(v, idx) == [k \in DOMAIN idx |-> v[idx[k]]]

\* the least element of a non-empty set of integers
Least(S) == CHOOSE i \in S : \A j \in S : i <= j

\* v.argmin(): the first position of a nan if there is one, else the first
\* position of the least element
ArgMin(v) ==
    IF \E i \in DOMAIN v : ~Finite(v[i])
    THEN Least({i \in DOMAIN v : ~Finite(v[i])})
    ELSE Least({i \in DOMAIN v : \A j \in DOMAIN v : ~RatLess(v[j], v[i])})

\* lst.append(r); lst.sort() on a sorted list
AppendSort(lst, r) ==
    SelectSeq(lst, LAMBDA e : e <= r) \o <<r>> \o SelectSeq(lst, LAMBDA e : e > r)

\* lst.remove(r): without the first element equal to r
Remove(lst, r) ==
    [k \in 1..(Len(lst) - 1) |->
        IF k < Least({i \in DOMAIN lst : lst[i] = r}) THEN lst[k] ELSE lst[k + 1]]

\* np.linalg.lstsq(A[:, F], b, rcond=None)[0] for at most two columns: the
\* least-squares solution, of least norm when the columns are dependent
Lstsq_One(aa, ab) == IF aa = 0 THEN <<FromInt(0)>> ELSE <<Rat(ab, aa)>>

Lstsq_Two(g11, g12, g22, c1, c2) ==
    IF g11 * g22 - g12 * g12 # 0
    THEN <<Rat(c1 * g22 - c2 * g12, g11 * g22 - g12 * g12),
           Rat(c2 * g11 - c1 * g12, g11 * g22 - g12 * g12)>>
    ELSE IF g11 + g22 = 0
    THEN <<FromInt(0), FromInt(0)>>
    ELSE <<Rat(c1, g11 + g22), Rat(c2, g11 + g22)>>

Lstsq(A, F, b) ==
    CASE Len(F) = 0 -> <<>>
      [] Len(F) = 1 -> Lstsq_One(Dot(Col(A, F[1]), Col(A, F[1])), Dot(Col(A, F[1]), b))
      [] Len(F) = 2 -> Lstsq_Two(Dot(Col(A, F[1]), Col(A, F[1])),
                                 Dot(Col(A, F[1]), Col(A, F[2])),
                                 Dot(Col(A, F[2]), Col(A, F[2])),
                                 Dot(Col(A, F[1]), b), Dot(Col(A, F[2]), b))

\* the locals of nnls after step 0. F_in and passes are history: the length
\* of F when the inner loop was entered and the passes of the inner loop
\* since then
Nnls_Step0(A, b, maxit, tolerance) ==
    [pc |-> "step1", A |-> A, b |-> b,
     maxit |-> IF maxit = None THEN Len(b) ELSE maxit,
     tolerance |-> FromInt(tolerance),
     F |-> <<>>,
     G |-> [j \in 1..NnlsCols |-> j],
     x |-> [j \in 1..NnlsCols |-> FromInt(0)],
     y |-> [j \in 1..NnlsCols |-> FromInt(-Dot(Col(A, j), b))],
     iterations |-> 0, lstsqs |-> 0, F_in |-> 0, passes |-> 0]

\* step 1 from `r = G[r_G]`: r is the index chosen in G
Nnls_Choose(n, r) ==
    IF RatLeq(n.tolerance, n.y[r])
    THEN [n EXCEPT !.pc = "done"]
    ELSE [n EXCEPT !.pc = "step2",
                   !.F = AppendSort(@, r),
                   !.G = Remove(@, r),
                   !.F_in = Len(n.F) + 1,
                   !.passes = 0]

\* the head of the outer loop and step 1
Nnls_Outer(n) ==
    IF n.iterations >= n.maxit
    THEN [n EXCEPT !.pc = "done"]
    ELSE IF Len(n.G) = 0
    THEN [n EXCEPT !.pc = "done", !.iterations = @ + 1]
    ELSE Nnls_Choose([n EXCEPT !.iterations = @ + 1],
                     n.G[ArgMin(Take(n.y, n.G))])

\* step 3: y[:] = 0; y[G] = np.dot(A[:,G].transpose(), np.dot(A[:,F], x[F]) - b)
Nnls_Residual(n) ==
    [i \in 1..NnlsRows |->
        RatSub(RatSum([k \in DOMAIN n.F |->
                          RatMul(FromInt(n.A[i][n.F[k]]), n.x[n.F[k]])]),
               FromInt(n.b[i]))]

Nnls_Gradient(n, res) ==
    [j \in 1..NnlsCols |->
        IF \E k \in DOMAIN n.G : n.G[k] = j
        THEN RatSum([i \in 1..NnlsRows |-> RatMul(FromInt(n.A[i][j]), res[i])])
        ELSE FromInt(0)]

Nnls_Step3(n) == [n EXCEPT !.pc = "step1", !.y = Nnls_Gradient(n, Nnls_Residual(n))]

\* step 2, `if (x_F >= 0).all()`: x[F] = x_F; feasible = True
Nnls_Feasible(n, x_F) ==
    Nnls_Step3([n EXCEPT
        !.x = [j \in 1..NnlsCols |->
                  IF \E k \in DOMAIN n.F : n.F[k] = j
                  THEN x_F[Least({k \in DOMAIN n.F : n.F[k] = j})]
                  ELSE @[j]]])

\* theta = x[F] / (x[F] - x_F)
Nnls_Theta(n, x_F) ==
    [k \in DOMAIN n.F |-> RatDiv(n.x[n.F[k]], RatSub(n.x[n.F[k]], x_F[k]))]

\* the positions of F that mask = (x_F <= 0) selects
Nnls_Mask(x_F) ==
    SelectSeq([k \in DOMAIN x_F |-> k], LAMBDA k : RatLeq(x_F[k], FromInt(0)))

\* x[F] = x[F] + alpha*(x_F-x[F]); F.remove(r); G.append(r); G.sort()
Nnls_Move(n, x_F, alpha, r) ==
    [n EXCEPT
        !.x = [j \in 1..NnlsCols |->
                  IF \E k \in DOMAIN n.F : n.F[k] = j
                  THEN RatAdd(@[j],
                           RatMul(alpha,
                               RatSub(x_F[Least({k \in DOMAIN n.F : n.F[k] = j})], @[j])))
                  ELSE @[j]],
        !.F = Remove(@, r),
        !.G = AppendSort(@, r)]

\* Nnls_Move without `F.remove(r)` and `G.append(r); G.sort()`
Nnls_Infeasible_KeepF(n, x_F, theta, mask) ==
    [n EXCEPT
        !.x = [j \in 1..NnlsCols |->
                  IF \E k \in DOMAIN n.F : n.F[k] = j
                  THEN RatAdd(@[j],
                           RatMul(theta[mask[ArgMin(Take(theta, mask))]],
                               RatSub(x_F[Least({k \in DOMAIN n.F : n.F[k] = j})], @[j])))
                  ELSE @[j]]]

\* step 2, the else branch: r_F = theta[mask].argmin(); alpha = theta[mask][r_F];
\* r = np.array(F)[mask][r_F]
Nnls_Infeasible(n, x_F, theta, mask) ==
    Nnls_Move(n, x_F, theta[mask[ArgMin(Take(theta, mask))]],
              n.F[mask[ArgMin(Take(theta, mask))]])

\* one pass of `while not feasible`, x_F being the result of lstsq
Nnls_Pass(n, x_F) ==
    IF \A k \in DOMAIN x_F : RatLeq(FromInt(0), x_F[k])
    THEN Nnls_Feasible(n, x_F)
    ELSE Nnls_Infeasible(n, x_F, Nnls_Theta(n, x_F), Nnls_Mask(x_F))

Nnls_Inner(n) ==
    Nnls_Pass([n EXCEPT !.lstsqs = @ + 1, !.passes = @ + 1], Lstsq(n.A, n.F, n.b))

\* the inputs of nnls: matrices and vectors of small integers, maxit None
\* or 0..NnlsMaxIt, tolerance 0 (the default), negative or positive
NnlsTolerances == {-1, 0, 2}
NnlsVectors == [1..NnlsRows -> (-NnlsMaxAbs)..NnlsMaxAbs]
NnlsMatrices == [1..NnlsRows -> [1..NnlsCols -> (-NnlsMaxAbs)..NnlsMaxAbs]]

\* actions: the call, one turn of the outer loop up to the inner loop, one
\* pass of the inner loop (with step 3 when it is the last)
NnlsCall ==
    /\ nnls = NnlsIdle
    /\ \E A \in NnlsMatrices, b \in NnlsVectors,
          maxit \in {None} \cup 0..NnlsMaxIt, tolerance \in NnlsTolerances :
          nnls' = Nnls_Step0(A, b, maxit, tolerance)
    /\ UNCHANGED <<log, reducer, dl1, mon, gen, store, raised, loaded, hist>>

NnlsStep1 ==
    /\ nnls.pc = "step1"
    /\ nnls' = Nnls_Outer(nnls)
    /\ UNCHANGED <<log, reducer, dl1, mon, gen, store, raised, loaded, hist>>

NnlsStep2 ==
    /\ nnls.pc = "step2"
    /\ nnls' = Nnls_Inner(nnls)
    /\ UNCHANGED <<log, reducer, dl1, mon, gen, store, raised, loaded, hist>>

\* the solver alone: no file is written
Init_Nnls ==
    /\ reducer = [cols |-> {}, itemsize |-> 8]
    /\ log = <<>>
    /\ InitProg(NewProg(FALSE))
    /\ loaded = NoResult
    /\ hist = <<>>
    /\ nnls = NnlsIdle

Next_Nnls == NnlsCall \/ NnlsStep1 \/ NnlsStep2

Spec_Nnls == Init_Nnls /\ [][Next_Nnls]_vars

\* ------------------------------------------------------------------ claims
\* the first n calls of append_event came with non-decreasing timestamps
InOrder(n) == \A a, b \in 1..n : a < b => hist[a].t_cpu <= hist[b].t_cpu
\* the first n calls of append_event came with strictly increasing timestamps
Increasing(n) == \A a, b \in 1..n : a < b => hist[a].t_cpu < hist[b].t_cpu

\* C1: a match that leaves real telemetry cycles available assigns the cycle
\* whose timestamp is the latest one not later than the timestamp of the
\* batch, the cycle of an equal timestamp included (data events in time order)
C1_LatestCycleNotLater ==
    \A i \in DOMAIN hist :
        LET h == hist[i]
            ct == CycleTimes(log)
        IN  (/\ dl1.monitor
             /\ h.returned
             /\ ~h.eof
             /\ InOrder(i)
             /\ \E k \in DOMAIN ct : ct[k] <= h.t_cpu)
            => /\ ct[h.imon + 1] <= h.t_cpu
               /\ \A k \in DOMAIN ct : ct[k] <= h.t_cpu => k <= h.imon + 1

\* C2: for data events with strictly increasing timestamps the monitor
\* index assigned to a pixel never decreases from one call of match to a
\* later one
C2_MonitorIndexNonDecreasing ==
    \A i, j \in DOMAIN hist :
        (/\ i < j
         /\ dl1.monitor
         /\ hist[i].returned
         /\ hist[j].returned
         /\ Increasing(j))
        => \A k \in DOMAIN EventPixels :
              hist[i].monitor_index[k] <= hist[j].monitor_index[k]

\* three events in increasing time order: the first matched to a real cycle
\* with telemetry left, the last to the synthetic tail, with a larger index
C2_Witness ==
    /\ dl1.monitor
    /\ Len(hist) = 3
    /\ \A i \in 1..3 : hist[i].returned
    /\ Increasing(3)
    /\ ~hist[1].eof
    /\ hist[3].aeof
    /\ hist[1].monitor_index[1] < hist[3].monitor_index[1]

\* C3: with a telemetry log, after close every row of the data table has a
\* monitor index that is a row position of the monitor table, the row there
\* has the cycle index current when the event was matched and the module
\* pixel div n_tmpix
C3_MonitorIndexValid ==
    (~store.is_open /\ dl1.monitor)
    => \A j \in DOMAIN store.data :
          LET r == store.data[j]
          IN  /\ "monitor_index" \in DOMAIN r
              /\ r["monitor_index"] + 1 \in DOMAIN store.monitor
              /\ store.monitor[r["monitor_index"] + 1].imon = hist[r["iev"] + 1].imon
              /\ store.monitor[r["monitor_index"] + 1].module = r["pixel"] \div n_tmpix

\* a finished file whose data table refers to a real cycle and to the
\* synthetic tail cycle
C3_Witness ==
    /\ ~store.is_open
    /\ dl1.monitor
    /\ \E j \in DOMAIN store.data :
          store.data[j]["monitor_index"] \div n_modules = Len(CycleTimes(log))
    /\ \E j \in DOMAIN store.data :
          store.data[j]["monitor_index"] \div n_modules < Len(CycleTimes(log))

\* C4: after close the data table holds every appended batch exactly once:
\* its row count is the sum of the row counts of the batches and every
\* (event, pixel) appears in one row
C4_EveryBatchOnce ==
    ~store.is_open
    => /\ Len(store.data) = Len(hist) * Len(EventPixels)
       /\ \A i \in DOMAIN hist : \A p \in DOMAIN EventPixels :
             Cardinality({j \in DOMAIN store.data :
                             /\ store.data[j]["iev"] = i - 1
                             /\ store.data[j]["pixel"] = EventPixels[p]}) = 1

\* a finished run of three events with a threshold flush during the run and
\* a last batch that only the flush of close wrote
C4_Witness ==
    /\ ~store.is_open
    /\ Len(hist) = 3
    /\ \E i \in DOMAIN hist : hist[i].written > 0
    /\ hist[3].written = 0

\* the byte estimate before the i-th call of append_event
EstimateBefore(i) == IF i = 1 THEN 0 ELSE hist[i - 1].estimate
BufferedBefore(i) == IF i = 1 THEN 0 ELSE hist[i - 1].buffered

\* C5: append_event buffers the batch, adds its size to the estimate and
\* flushes in the same call exactly when the estimate has reached the
\* threshold; after the call the estimate is below the threshold, and a
\* call that stays below it writes nothing
C5_FlushAtThreshold ==
    \A i \in DOMAIN hist :
        LET h == hist[i]
            reached == EstimateBefore(i) + h.counted >= FlushThreshold
        IN  h.returned
            => /\ h.counted = MemoryUsage(MakeEvent(i - 1, h.t_cpu, reducer))
               /\ h.estimate < FlushThreshold
               /\ reached => /\ h.written = (BufferedBefore(i) + 1) * Len(EventPixels)
                             /\ h.estimate = 0
                             /\ h.buffered = 0
               /\ ~reached => /\ h.written = 0
                              /\ h.estimate = EstimateBefore(i) + h.counted
                              /\ h.buffered = BufferedBefore(i) + 1

\* an append below the threshold followed by one that brings the estimate
\* to exactly the threshold and flushes
C5_Witness ==
    /\ Len(hist) >= 2
    /\ hist[1].returned /\ hist[1].written = 0
    /\ hist[2].returned /\ hist[2].written > 0
    /\ hist[1].estimate + hist[2].counted = FlushThreshold

\* the frame of the i-th call of append_event as the call left it
AppendedFrame(i) ==
    LET e == MakeEvent(i - 1, hist[i].t_cpu, reducer)
    IN  IF hist[i].monitor_index = <<>>
        THEN e
        ELSE [e EXCEPT
                !.cols = @ \cup {"monitor_index"},
                !.rows = [k \in DOMAIN e.rows |->
                            [c \in e.cols \cup {"monitor_index"} |->
                                IF c = "monitor_index"
                                THEN hist[i].monitor_index[k]
                                ELSE e.rows[k][c]]]]

C7_KeepsExtrapolating ==
    \A i \in DOMAIN hist :
        (/\ i > 1
         /\ dl1.monitor
         /\ hist[i].returned
         /\ hist[i - 1].eof
         /\ hist[i].t_cpu > hist[i - 1].t_next)
        => /\ hist[i].imon = hist[i - 1].imon_next
           /\ hist[i].imon_next = hist[i].imon + 1
           /\ hist[i].t_next = hist[i - 1].t_next + hist[i].t_delta_max

\* C7 amended: after exhaustion the aligner extrapolates one cycle only.
\* The look-ahead is the synthetic cycle N (N the number of cycles the
\* telemetry reader delivered); the first data event later than it makes it
\* current (the tail), and from then on current and look-ahead stay as they
\* are, so the assigned cycle index stays N for every later event
C7_ExtrapolatesOnce ==
    \A i \in DOMAIN hist :
        LET h == hist[i]
        IN  (dl1.monitor /\ h.returned /\ h.eof)
            => /\ h.imon_next = mon.metadata["n_events"]
               /\ h.aeof => h.imon = h.imon_next /\ h.t_cur = h.t_next
               /\ ~h.aeof => h.imon = h.imon_next - 1 /\ h.t_cpu <= h.t_next
               /\ (i > 1 /\ hist[i - 1].eof)
                  => /\ h.t_next = hist[i - 1].t_next
                     /\ hist[i - 1].aeof => h.aeof /\ h.imon = hist[i - 1].imon
                     /\ (~hist[i - 1].aeof /\ h.t_cpu > hist[i - 1].t_next) => h.aeof

\* a data event later than the synthetic look-ahead, matched after the tail
\* was emitted
C7_Witness ==
    \E i \in DOMAIN hist :
        /\ i > 1
        /\ dl1.monitor
        /\ hist[i].returned
        /\ hist[i - 1].aeof
        /\ hist[i].t_cpu > hist[i - 1].t_next

\* C8: with real cycles at 0, 10 and 20, a data event at 35 matched after
\* the telemetry is exhausted gets the synthetic cycle 3 whose timestamp is
\* 30 (data events in time order)
C8_SyntheticCycleAt30 ==
    \A i \in DOMAIN hist :
        (/\ i > 1
         /\ CycleTimes(log) = <<0, 10, 20>>
         /\ hist[i].returned
         /\ hist[i - 1].eof
         /\ hist[i].t_cpu = 35
         /\ InOrder(i))
        => /\ hist[i].imon = 3
           /\ hist[i].t_cur = 30

\* C9: in every append the alignment is done before the batch is added to
\* the buffer and before its size is counted: the batch is added with its
\* monitor index and counted with it
C9_StampedBeforeBuffered ==
    \A i \in DOMAIN hist :
        (dl1.monitor /\ hist[i].returned)
        => /\ "monitor_index" \in hist[i].added_cols
           /\ hist[i].counted = MemoryUsage(AppendedFrame(i))

\* the rows of a table are in the order of (event, pixel)
SortedByEventPixel(rows) ==
    \A j, k \in DOMAIN rows :
        j < k => \/ rows[j]["iev"] < rows[k]["iev"]
                 \/ /\ rows[j]["iev"] = rows[k]["iev"]
                    /\ rows[j]["pixel"] < rows[k]["pixel"]

\* the row of a table for an (event, pixel)
RowOf(rows, iev, pixel) ==
    rows[CHOOSE j \in DOMAIN rows : rows[j]["iev"] = iev /\ rows[j]["pixel"] = pixel]

DeclaredDefaults ==
    {"t_event", "t_pulse", "amp_pulse", "charge", "fwhm", "tr",
     "baseline_start_mean", "baseline_start_rms", "baseline_end_mean",
     "baseline_end_rms", "baseline_subtracted", "waveform_mean",
     "waveform_rms", "saturation_coeff"}

\* C11: every row a flush wrote has every declared default column, with the
\* value 0 where the batches did not supply it, and no column besides the
\* supplied ones and the declared defaults
C11_DefaultColumnsBackFilled ==
    \A j \in DOMAIN store.data :
        LET r == store.data[j]
            supplied == Mandatory \cup reducer.cols \cup {"monitor_index"}
        IN  /\ DeclaredDefaults \subseteq DOMAIN r
            /\ \A c \in (DeclaredDefaults \cap DOMAIN r) \ supplied : r[c] = 0
            /\ DOMAIN r \subseteq supplied \cup DeclaredDefaults

\* the positions of the store's journal that are writes of a kind to a table
JournalOf(table, kind) ==
    {k \in DOMAIN store.journal :
        store.journal[k].table = table /\ store.journal[k].kind = kind}

\* C12: the metadata of a table is written during close only, after every
\* write of rows to that table; a finished file has it written once for
\* each table, and the recorded n_bytes is the byte size of the rows
\* flushed to the table
C12_MetadataOnceAfterFlush ==
    /\ \A t \in {"data", "monitor"} :
          /\ Cardinality(JournalOf(t, "metadata")) <= 1
          /\ \A m \in JournalOf(t, "metadata") :
                /\ ~store.is_open \/ raised # "none"
                /\ \A k \in JournalOf(t, "rows") : k < m
    /\ ~store.is_open
       => /\ \A t \in store.keys : Cardinality(JournalOf(t, "metadata")) = 1
          /\ store.attrs["data"]["n_bytes"] =
                Len(store.data) * Cardinality(DOMAIN store.data[1]) * reducer.itemsize
          /\ dl1.monitor
             => store.attrs["monitor"]["n_bytes"] = MonMemoryUsage(store.monitor)

\* a finished file with a monitor table whose data table was written by two
\* flushes
C12_Witness ==
    /\ ~store.is_open
    /\ "monitor" \in store.keys
    /\ Cardinality(JournalOf("data", "rows")) = 2
    /\ Cardinality(JournalOf("monitor", "metadata")) = 1

\* C13: iterate_over_events of a finished file yields groups of as many
\* rows as an event has pixels (data table) or a cycle has modules (monitor
\* table); the rows of a group are of one event (cycle), and no other group
\* has a row of it
C13_OneEventPerGroup ==
    loaded.status = "events"
    => LET n == IF loaded.key = "data" THEN Len(EventPixels) ELSE n_modules
           id(r) == IF loaded.key = "data" THEN r["iev"] ELSE r.imon
       IN  /\ \A g \in DOMAIN loaded.rows :
                 /\ Len(loaded.rows[g]) = n
                 /\ \A a \in DOMAIN loaded.rows[g] :
                       id(loaded.rows[g][a]) = id(loaded.rows[g][1])
           /\ \A g, h \in DOMAIN loaded.rows :
                 g # h => id(loaded.rows[g][1]) # id(loaded.rows[h][1])
           /\ Len(loaded.rows) * n = Len(TableOf(loaded.key))

\* the events of a data table of three events written by two flushes,
\* read back from a file that has a monitor table
C13_Witness ==
    /\ loaded.status = "events"
    /\ loaded.key = "data"
    /\ Len(loaded.rows) = 3
    /\ "monitor" \in store.keys
    /\ Cardinality(JournalOf("data", "rows")) = 2

\* C14: load_entire_table(force) raises MemoryError and returns nothing
\* exactly when the recorded byte count is greater than the guard (8E9) and
\* force is not set; otherwise, a byte count equal to the guard included, it
\* returns the whole table
C14_GuardUnlessForced ==
    loaded.status \in {"ok", "MemoryError"}
    => /\ loaded.status = "MemoryError"
          <=> (store.attrs["data"]["n_bytes"] > MemoryGuard /\ ~loaded.force)
       /\ loaded.status = "MemoryError" => loaded.rows = <<>>
       /\ loaded.status = "ok" => loaded.rows = store.data

\* an unforced load of a table whose recorded byte count is exactly the guard
C14_Witness ==
    /\ loaded.status = "ok"
    /\ ~loaded.force
    /\ store.attrs["data"]["n_bytes"] = MemoryGuard
    /\ Len(loaded.rows) > 0

\* the lines of the log the generator has read
Consumed == SubSeq(log, 1, gen.pos - 1)

\* the number of elements of a sequence of lines that satisfy Test
CountLines(lines, Test(_)) == Cardinality({i \in DOMAIN lines : Test(lines[i])})

IsDone(line) == line.kind = "done"
IsBadValue(line) == line.kind = "sample" /\ line.value = BadValue
IsWellFormedSample(line) ==
    line.kind = "sample" /\ line.key \in supported /\ line.value # BadValue

\* the lines of the cycle the generator holds in df: those after the last
\* terminator before the one it is suspended at
CycleStart ==
    LET last == IF gen.suspended THEN gen.pos - 2 ELSE gen.pos - 1
        dones == {i \in 1..last : IsDone(log[i])}
    IN  IF dones = {} THEN 1 ELSE 1 + CHOOSE i \in dones : \A j \in dones : j <= i

\* the batch that holds the well-formed samples of lines and nothing else
RECURSIVE BatchOfSamples(_)
BatchOfSamples(lines) ==
    IF lines = <<>> THEN empty_df
    ELSE LET line == lines[Len(lines)]
             df == BatchOfSamples(SubSeq(lines, 1, Len(lines) - 1))
         IN  IF IsWellFormedSample(line)
             THEN SetLoc(df, line.device_id, line.key, line.value)
             ELSE df

\* the generator has yielded one batch per terminator read, and the batch
\* it holds is that of the well-formed samples of its cycle
LinesIgnoredExceptSamples ==
    /\ gen.imon + (IF gen.suspended THEN 1 ELSE 0) = CountLines(Consumed, IsDone)
    /\ gen.df = IF gen.suspended
                THEN Stamp(BatchOfSamples(SubSeq(log, CycleStart, gen.pos - 1)),
                           gen.imon, log[gen.pos - 1].t)
                ELSE BatchOfSamples(SubSeq(log, CycleStart, gen.pos - 1))

\* C15: a sample line whose value does not parse is skipped and reported
\* and the stream goes on: on a log read without another error, every such
\* line read has been reported once, one batch has been yielded per
\* terminator read, and the batch in progress holds exactly the well-formed
\* samples of its cycle, the field of the malformed line being as it was
C15_MalformedValueSkipped ==
    (log # <<>> /\ \A i \in DOMAIN Consumed : Consumed[i].n_fields >= 2)
    => /\ raised # "ValueError"
       /\ gen.reported = CountLines(Consumed, IsBadValue)
       /\ LinesIgnoredExceptSamples

\* the log is a malformed sample line and a terminator: one batch has been
\* yielded, the line has been reported, and the field is not-a-number
C15_Witness ==
    /\ Len(log) = 2 /\ IsBadValue(log[1]) /\ IsDone(log[2])
    /\ gen.exhausted
    /\ gen.imon = 1
    /\ gen.reported = 1
    /\ raised = "none"
    /\ ~store.is_open
    /\ Len(store.monitor) = n_modules
    /\ \A i \in DOMAIN store.monitor : store.monitor[i].tm["TM_T_PRI"] = NaN

\* C16: a line of fewer than 6 fields that is not a terminator, the line of
\* one field included, raises no error, yields no batch and leaves the
\* batch in progress and the cycle counter as they were
C16_ShortLinesIgnored ==
    log # <<>> => (raised # "IndexError" /\ LinesIgnoredExceptSamples)

\* C17: on a file without a monitor table get_monitor_column raises
\* AttributeError ("No monitor information was included in the creation of
\* this file") and returns no values
C17_NoMonitorNoColumn ==
    (loaded.column # "none" /\ "monitor" \notin store.keys)
    => (loaded.status = "AttributeError" /\ loaded.rows = <<>>)

\* get_monitor_column has been called on a finished file of data events
\* written without a telemetry log
C17_Witness ==
    /\ log = <<>>
    /\ Len(store.data) > 0
    /\ "monitor" \notin store.keys
    /\ loaded.column = "TM_T_PRI"
    /\ loaded.status = "AttributeError"

\* C18: on a file that has a monitor table get_monitor_column completes
\* without error and returns the value of the named column at each
\* requested row
C18_ReturnsColumnValues ==
    (loaded.column # "none" /\ "monitor" \in store.keys)
    => /\ loaded.status = "column"
       /\ loaded.rows = TakeRows(MonitorColumn(loaded.column), loaded.index)

\* the rows of the monitor table and of the monitor buffer whose cycle
\* index is none of the cycles the telemetry reader has yielded: the rows of
\* the synthetic terminal batch, as long as no flush has failed inside the
\* telemetry reader (gen.alias = 0; a batch whose flush failed there is
\* buffered without being yielded)
TailRows ==
    LET frames == store.monitor \o MonConcat(mon.df_list)
        yielded == gen.imon + (IF gen.suspended THEN 1 ELSE 0)
    IN  {i \in DOMAIN frames : frames[i].imon >= yielded}

TailRow(i) == (store.monitor \o MonConcat(mon.df_list))[i]

\* C19: the synthetic terminal batch is appended at most once, and only
\* after the telemetry is exhausted and a data event later than the
\* synthetic look-ahead was matched; it is all not-a-number, and the call
\* that appends it leaves current equal to the look-ahead
C19_TailAtMostOnce ==
    dl1.monitor
    => /\ mon.n_tail <= 1
       /\ gen.alias = 0
          => /\ Cardinality(TailRows) = mon.n_tail * n_modules
             /\ \A i \in TailRows :
                   \A k \in supported : TailRow(i).tm[k] = NaN
       /\ mon.n_tail = 1
          => /\ mon.eof
             /\ \E i \in DOMAIN hist :
                   /\ hist[i].eof
                   /\ hist[i].t_cpu > hist[i].t_next
                   /\ i > 1 => ~hist[i - 1].aeof
                   /\ hist[i].returned
                      => (hist[i].aeof /\ hist[i].t_cur = hist[i].t_next)
       /\ (raised = "none" /\ mon.aeof)
          => (mon.n_tail = 1 /\ mon.monitor_ev = mon.next_monitor_ev)
       /\ \A i \in DOMAIN hist :
             (i > 1 /\ hist[i].aeof /\ hist[i - 1].aeof)
             => hist[i].t_cur = hist[i - 1].t_cur

\* two data events later than the synthetic look-ahead were matched after
\* the telemetry was exhausted, and the file was closed
C19_Witness ==
    /\ ~store.is_open
    /\ mon.n_tail = 1
    /\ Cardinality(TailRows) = n_modules
    /\ \E i, j \in DOMAIN hist :
          /\ i < j
          /\ hist[i].aeof
          /\ hist[j].t_cpu > hist[j].t_next

\* the largest difference between two consecutive elements of a sequence of
\* timestamps, 0 for fewer than two
LargestGap(times) ==
    LET gaps == {times[i + 1] - times[i] : i \in 1..(Len(times) - 1)}
    IN  IF gaps = {} THEN 0 ELSE CHOOSE g \in gaps : \A h \in gaps : h <= g

\* C20: t_delta_max is the largest difference between the timestamps of two
\* consecutive cycles that the telemetry reader has delivered so far (0
\* before two cycles), whatever the timestamps of the data events
C20_MaxGapOfCycles ==
    (dl1.monitor /\ raised = "none" /\ gen.alias = 0)
    => mon.t_delta_max =
          LargestGap(SubSeq(CycleTimes(log), 1,
                            gen.imon + (IF gen.suspended THEN 1 ELSE 0)))

\* C21: the aligner never regresses, whatever the order of the timestamps
\* of the data events: from one step of the writer to the next the cycle
\* index and the timestamp of current (monitor_ev) and of the look-ahead
\* (next_monitor_ev) do not decrease, and eof and aeof, once set, stay set
C21_NeverRegresses ==
    [][dl1.monitor
       => /\ Loc0(mon.monitor_ev).imon <= Loc0(mon'.monitor_ev).imon
          /\ Loc0(mon.monitor_ev).t_cpu <= Loc0(mon'.monitor_ev).t_cpu
          /\ Loc0(mon.next_monitor_ev).imon <= Loc0(mon'.next_monitor_ev).imon
          /\ Loc0(mon.next_monitor_ev).t_cpu <= Loc0(mon'.next_monitor_ev).t_cpu
          /\ mon.eof => mon'.eof
          /\ mon.aeof => mon'.aeof]_vars

\* a data event earlier than the current cycle was matched after an event
\* had advanced the aligner, and a data event earlier than its predecessor
\* was matched after the tail was emitted
C21_Witness ==
    /\ \E i, j \in DOMAIN hist :
          /\ i < j
          /\ hist[i].imon >= 1
          /\ hist[j].returned
          /\ hist[j].t_cpu < hist[i].t_cpu
          /\ hist[j].t_cpu < hist[j].t_cur
    /\ \E i, j \in DOMAIN hist :
          /\ i < j
          /\ hist[i].aeof
          /\ hist[j].returned
          /\ hist[j].t_cpu < hist[i].t_cpu

\* the batch the telemetry reader has just yielded has one row per module,
\* in the order of the module ids, every row with the cycle index and the
\* timestamp of the batch
OneRowPerModule ==
    /\ Len(gen.df) = n_modules
    /\ \A i \in DOMAIN gen.df :
          /\ gen.df[i].module = i - 1
          /\ gen.df[i].imon = gen.imon
          /\ gen.df[i].t_cpu = gen.t_cpu

\* every reading of the batch just yielded was set by a sample line of its
\* own cycle
NothingCarriedOver ==
    \A i \in DOMAIN gen.df : \A k \in supported :
        gen.df[i].tm[k] # NaN
        => \E j \in CycleStart..(gen.pos - 1) :
              /\ IsWellFormedSample(log[j])
              /\ log[j].key = k
              /\ log[j].device_id = gen.df[i].label
              /\ log[j].value = gen.df[i].tm[k]

\* C22: every batch the telemetry reader yields, whatever device ids its
\* sample lines carry, has exactly one row per module 0..n_modules-1, all
\* with the cycle index and timestamp of the batch, and holds no reading of
\* an earlier cycle
C22_OneRowPerModule ==
    (dl1.monitor /\ gen.suspended) => (OneRowPerModule /\ NothingCarriedOver)

\* the rows of cycle c of the monitor table, the first cycle being 0
CycleRows(c) == SubSeq(store.monitor, c * n_modules + 1, (c + 1) * n_modules)

\* C23: once MonitorWriter.finish has completed, and so after close, the
\* monitor table holds every cycle of the telemetry log exactly once, in
\* the order of the cycle indices 0..N-1, one row per module with the
\* timestamp of the cycle, followed by the synthetic tail cycle N if it was
\* emitted and by nothing otherwise, whatever data events were matched
C23_EveryCycleOnce ==
    (dl1.monitor /\ (~store.is_open \/ JournalOf("monitor", "metadata") # {}))
    => LET N == Len(CycleTimes(log))
       IN  /\ JournalOf("monitor", "metadata") # {}
           /\ Len(store.monitor) = (N + mon.n_tail) * n_modules
           /\ mon.n_tail \in {0, 1}
           /\ \A c \in 0..(N + mon.n_tail - 1) : \A m \in 1..n_modules :
                 /\ CycleRows(c)[m].imon = c
                 /\ CycleRows(c)[m].module = m - 1
                 /\ c < N => CycleRows(c)[m].t_cpu = CycleTimes(log)[c + 1]
           /\ mon.df_list = <<>>

\* a closed file of three cycles whose data events all matched the first
\* cycle: the two cycles no event reached are in the table, without a tail
C23_Witness ==
    /\ ~store.is_open
    /\ dl1.monitor
    /\ Len(CycleTimes(log)) = 3
    /\ hist # <<>>
    /\ \A i \in DOMAIN hist : hist[i].imon = 0
    /\ Len(store.monitor) = 3 * n_modules
    /\ CycleRows(2)[1].imon = 2

\* F and G are disjoint and together hold every column index exactly once
NnlsPartition ==
    /\ Len(nnls.F) + Len(nnls.G) = NnlsCols
    /\ {nnls.F[k] : k \in DOMAIN nnls.F} \cup {nnls.G[k] : k \in DOMAIN nnls.G}
          = 1..NnlsCols

\* a pass of the inner loop that does not exit removes one index from F
NnlsPassRemovesOne ==
    nnls.pc = "step2" => Len(nnls.F) = nnls.F_in - nnls.passes

\* C24 as stated: the outer loop runs at most maxit times, F and G
\* partition the column indices, every pass of the inner loop that does not
\* exit removes one index from F, and the inner loop runs at most |F|
\* times, |F| being the size of F when the loop is entered
C24_InnerAtMostF ==
    nnls.pc # "idle"
    => /\ nnls.iterations <= nnls.maxit
       /\ NnlsPartition
       /\ NnlsPassRemovesOne
       /\ nnls.passes <= nnls.F_in

\* C24 amended: as stated, but the inner loop runs at most |F| + 1 times:
\* at most |F| passes that remove an index, and the pass that exits, which
\* finds F empty when every index has been removed
C24_InnerAtMostFPlusOne ==
    nnls.pc # "idle"
    => /\ nnls.iterations <= nnls.maxit
       /\ NnlsPartition
       /\ NnlsPassRemovesOne
       /\ nnls.passes <= nnls.F_in + 1

\* a call that returned after an inner loop entered with two indices in F
\* had removed both
C24_Witness ==
    /\ nnls.pc = "done"
    /\ nnls.F_in = 2
    /\ nnls.passes = 3
    /\ nnls.iterations >= 2

\* every step of a call returns or raises the count of outer iterations or
\* of least-squares solves, which the bounds above limit: the call returns
\* after at most maxit * (NnlsCols + 2) steps
NnlsProgress ==
    [][nnls.pc \in {"step1", "step2"}
       => \/ nnls'.pc = "done"
          \/ nnls'.iterations > nnls.iterations
          \/ nnls'.lstsqs > nnls.lstsqs]_vars

NnlsStepsBounded ==
    nnls.pc # "idle"
    => nnls.lstsqs <= nnls.iterations * (NnlsCols + 1)

====
